---- MODULE Spec2Model ----
(***************************************************************************)
(* The ESP-IDF APDU driver of lpac (src/driver/apdu/espidf.c): a T=0       *)
(* smart-card transceiver on a half-duplex UART with two GPIO control      *)
(* lines.  The driver is single threaded; its state is the position of the *)
(* running entry point, the command being exchanged, the response buffer   *)
(* and the level of the two control lines.  Every call the driver makes to *)
(* the hardware (GPIO write, delay, flush, UART write, UART read and what  *)
(* the read returned) is appended to `log`; the card and the line are the  *)
(* environment and choose what every read returns.                         *)
(***************************************************************************)
EXTENDS Integers, Sequences, FiniteSets, TLC

(***************************************************************************)
(* Bounds of the model (not program constants).                            *)
(***************************************************************************)
\* the card sends at most this many consecutive 0x60 bytes in one phase
MaxNull == 1
\* the card sends at most this many response bytes in the receive loop
MaxRecv == 3
\* response positions below this index range over StatusBytes, later ones are filler
MaxVaried == 2
\* the card repeats the ATR start marker at most this many times after the first
MaxMarkers == 1
\* bytes still buffered after the ATR settle delay
MaxExtra == 1
\* echo corruption is tried at the first MaxCorruptPos positions and the last
MaxCorruptPos == 2
\* the most bytes a card sends back to back in one response
MaxFlood == 265
\* heap blocks the HTTP driver can allocate before malloc fails
MaxBlocks == 3
\* ON_DATA events of one HTTP request
MaxChunks == 2

(***************************************************************************)
(* Program constants.                                                      *)
(***************************************************************************)
EUICC_INTERFACE_BUFSZ == 264
APDU_TERMINAL_CAPABILITIES ==
    << \h80, \hAA, \h00, \h00, \h0A, \hA9, \h08, \h81, \h00, \h82, \h01, \h01,
       \h83, \h01, \h07 >>
APDU_OPENLOGICCHANNEL == << \h00, \h70, \h00, \h00, \h01 >>
APDU_CLOSELOGICCHANNEL == << \h00, \h70, \h80, \hFF, \h00 >>
APDU_SELECT_HEADER == << \h00, \hA4, \h04, \h00, \hFF >>
\* the NULL / wait procedure byte
NULL_BYTE == \h60
\* "to_recv = 65535": the undetermined response length
TO_RECV_MAX == 65535
\* the ATR start byte
ATR_START == \h3B
\* a UART read that returned no byte
TIMEOUT == << >>

(***************************************************************************)
(* Byte arithmetic.                                                        *)
(***************************************************************************)
Bit(b, k) == (b \div (2 ^ k)) % 2

RECURSIVE OrBits(_, _, _)
OrBits(a, b, k) ==
    IF k < 0 THEN 0
    ELSE (IF Bit(a, k) = 1 \/ Bit(b, k) = 1 THEN 2 ^ k ELSE 0) + OrBits(a, b, k - 1)

\* a | b on bytes
Or8(a, b) == OrBits(a, b, 7)

\* b & 0xF0
AndF0(b) == (b \div 16) * 16

\* b & 0x0F
And0F(b) == b % 16

\* (uint8_t) n : the conversion of a 32-bit length to the uint8_t parameter
U8(n) == n % 256

\* ntohs(*(uint16_t *)(p)) : two bytes read big-endian
Ntohs(hi, lo) == hi * 256 + lo

(***************************************************************************)
(* State.                                                                  *)
(***************************************************************************)
VARIABLES
    pc,         \* position of the running entry point ("idle": none running)
    op,         \* entry point running or last run
    stage,      \* which exchange of the entry point is running
    arg,        \* the entry point's argument: command, AID or channel
    cmd,        \* tx : the bytes of the buffer handed to _transmit_raw
    tx_len,     \* tx_len of _transmit_raw (uint8_t)
    log,        \* the hardware calls made since the entry point was called
    rx,         \* bytes stored into the response buffer by the exchange
    rx_len,     \* *rx_len : << >> while unset, <<n>> once assigned
    to_recv,    \* expected number of response bytes
    nulls,      \* consecutive 0x60 bytes received in the current phase
    sw,         \* the bytes of an early status word read so far
    channel,    \* channel of logic_channel_open
    ret,        \* return value of the entry point, << >> while it runs
    sim_on,     \* level of SIM_ON_PIN
    reset_pin,  \* level of RESET_PIN
    t0,         \* ATR T0 byte
    idx,        \* loop index of the ATR loops
    heap,       \* state of the buffer malloc'ed by transmit
    rx_ptr      \* *rx of transmit: what the caller's pointer refers to

vars == << pc, op, stage, arg, cmd, tx_len, log, rx, rx_len, to_recv, nulls, sw,
           channel, ret, sim_on, reset_pin, t0, idx, heap, rx_ptr >>

\* the state of the HTTP driver and of its caller
VARIABLES
    hpc,            \* position of the HTTP driver: "unloaded", "idle", "perform", "aborted"
    output_buffer,  \* output_buffer : 0 (NULL) or the number of a heap block
    output_len,     \* output_len
    receive_len,    \* receive_len
    certs_buf,      \* certs_buf : 0 (NULL) or the number of a heap block
    blocks,         \* the heap blocks allocated so far, numbered from 1
    chunks,         \* the chunks the ON_DATA events of the current request delivered
    hrx,            \* *rx of the last transmit: << >> unset, else <<0>> (NULL) or <<block>>
    hrx_len,        \* *rx_len of the last transmit
    rcode,          \* *rcode of the last transmit
    hret            \* the value the last transmit returned

hvars == << hpc, output_buffer, output_len, receive_len, certs_buf, blocks, chunks,
            hrx, hrx_len, rcode, hret >>

\* one hardware call: kind, phase (or pin), and the bytes written / read / the value
Ev(k, ph, b) == [k |-> k, ph |-> ph, b |-> b]

\* the bytes written to the serial line, in order
RECURSIVE Wire(_)
Wire(l) ==
    IF l = << >> THEN << >>
    ELSE (IF Head(l).k = "w" THEN Head(l).b ELSE << >>) \o Wire(Tail(l))

\* the events of one kind and phase
Events(l, k, ph) == SelectSeq(l, LAMBDA e : e.k = k /\ e.ph = ph)

\* number of UART read calls
Reads(l) == Len(SelectSeq(l, LAMBDA e : e.k = "r"))

\* GPIO writes
Gpio(l) == SelectSeq(l, LAMBDA e : e.k = "gpio")

Init ==
    /\ pc = "idle"
    /\ op = "none"
    /\ stage = "none"
    /\ arg = << >>
    /\ cmd = << >>
    /\ tx_len = 0
    /\ log = << >>
    /\ rx = << >>
    /\ rx_len = << >>
    /\ to_recv = 0
    /\ nulls = 0
    /\ sw = << >>
    /\ channel = 0
    /\ ret = << >>
    /\ sim_on = 0
    /\ reset_pin = 0
    /\ t0 = 0
    /\ idx = 0
    /\ heap = "none"
    /\ rx_ptr = "unset"
    /\ hpc = "unloaded"
    /\ output_buffer = 0
    /\ output_len = 0
    /\ receive_len = 0
    /\ certs_buf = 0
    /\ blocks = << >>
    /\ chunks = << >>
    /\ hrx = << >>
    /\ hrx_len = << >>
    /\ rcode = << >>
    /\ hret = << >>

(***************************************************************************)
(* Inputs: what the callers pass and what the card and the line return.    *)
(***************************************************************************)
\* command_len values passed to transmit
CmdLens == {0, 4, 5, 6, 7, 8, 9, 256, 260, 261, 263}
CmdClas == {\h00, \h80}
CmdIns == {\hA4}
CmdP3s == {0, 1, 3, 255}
\* the first two body bytes (an extended Lc or Le) and the last two (an extended Le)
HeadPairs == {<<0, 0>>, <<0, 1>>, <<1, 0>>}
TailPairs == {<<0, 0>>, <<0, 3>>}
BodyFill == \h11

\* the command CLA INS 00 00 P3 followed by a body of n - 5 bytes
MkCmd(n, cla, ins, p3, head, tail) ==
    [i \in 1..n |->
        CASE i = 1 -> cla
          [] i = 2 -> ins
          [] i \in {3, 4} -> 0
          [] i = 5 -> p3
          [] i \in {6, 7} -> head[i - 5]
          [] i > 7 /\ i >= n - 1 -> tail[i - (n - 2)]
          [] OTHER -> BodyFill]

\* two more commands: one whose INS is the NULL byte 0x60, and an extended
\* header + Le command with Le = 0xFFFD
SpecialCommands ==
    { << \h80, \h60, \h00, \h00, \h01 >>,
      << \h00, \hA4, \h00, \h00, \h00, \hFF, \hFD >> }

Commands ==
    {MkCmd(n, cla, ins, p3, h, t) :
        n \in CmdLens, cla \in CmdClas, ins \in CmdIns, p3 \in CmdP3s,
        h \in HeadPairs, t \in TailPairs}
    \cup SpecialCommands

\* AIDs passed to logic_channel_open
AidLens == {0, 2, 16, 251}
MkAid(n) == [i \in 1..n |-> IF i = 1 THEN \hAA ELSE IF i = 2 THEN \hBB ELSE \hA0]
Aids == {MkAid(n) : n \in AidLens}

\* channels passed to logic_channel_close
CloseChannels == 0..3

\* first byte of the card's answer to MANAGE CHANNEL OPEN
ChannelIds == {\h00, \h01, \h03, \h04, \h13}
\* status and procedure bytes the card sends
StatusBytes == {\h60, \h61, \h6A, \h90}
RespFill == \h00
\* second bytes of an early status word
Sw2Bytes == {\h00, \h90}
\* value read past the end of the command buffer
Garbage == {\h00, \hFF}
\* T0 bytes of the ATR
T0s == {\h00, \h05, \h10, \h97, \hFF}
AtrBytes == {\h3B, \h3F}

\* the byte the card sends as response byte number n (from 0) of the receive loop
RespBytes(n) ==
    IF op = "open" /\ stage = "mc" /\ n = 0 THEN ChannelIds
    ELSE IF n < MaxVaried THEN StatusBytes
    ELSE {RespFill}

\* what a one-byte read returns in the receive loop after n stored bytes
\* the card keeps sending back to back: tried for header-only commands of
\* transmit, by a card whose every byte so far is 0x90 or filler
Flooding ==
    /\ op = "transmit" /\ Len(cmd) = 5
    /\ rx # << >> /\ \A i \in 1..Len(rx) : rx[i] \in {\h90, RespFill}

RecvReads(n) ==
    {TIMEOUT} \cup (IF n < MaxRecv
                    THEN {<<b>> : b \in {c \in RespBytes(n) : c = NULL_BYTE => nulls < MaxNull}}
                    ELSE IF n < MaxFlood /\ Flooding THEN {<<RespFill>>}
                    ELSE {})

\* what the procedure-byte read returns
ProcReads(ins) ==
    {TIMEOUT} \cup {<<b>> : b \in {c \in StatusBytes \cup {ins} :
                                     (c = NULL_BYTE /\ c # ins) => nulls < MaxNull}}

\* one bit of byte b flipped
Flip(b) == IF b % 2 = 0 THEN b + 1 ELSE b - 1

\* what the line returns as the echo of s: s itself, s with one corrupted byte,
\* or a short read
Echoes(s) ==
    {s}
    \cup {[s EXCEPT ![i] = Flip(s[i])] :
             i \in {j \in 1..Len(s) : j <= MaxCorruptPos \/ j = Len(s)}}
    \cup {SubSeq(s, 1, m) : m \in {0, Len(s) - 1} \cap (0..Len(s))}

(***************************************************************************)
(* _send_and_clear_echo and the response-length computation.               *)
(***************************************************************************)
\* strncmp(a, b, n) == 0, comparing from position i: the comparison stops at the
\* first difference, at a NUL byte, or after n bytes
RECURSIVE StrncmpEq(_, _, _, _)
StrncmpEq(a, b, n, i) ==
    IF i > n THEN TRUE
    ELSE IF a[i] # b[i] THEN FALSE
    ELSE IF a[i] = 0 THEN TRUE
    ELSE StrncmpEq(a, b, n, i + 1)

\* the outcome of _send_and_clear_echo(tx, Len(tx)) when the write succeeds or not
\* (w) and the read returns e: "ok" or the error it logs
SendAndClearEcho(tx, w, e) ==
    IF ~w THEN "Fail to transmit data"
    ELSE IF Len(e) # Len(tx) THEN "Fail to clear echo"
    ELSE IF ~StrncmpEq(e, tx, Len(tx), 1) THEN "Echo mismatch"
    ELSE "ok"

\* the hardware calls of _send_and_clear_echo
EchoEvents(ph, tx, w, e) ==
    IF w THEN << Ev("w", ph, tx), Ev("r", ph, e) >> ELSE << Ev("w", ph, << >>) >>

\* tx[i] (C index), g when i lies past the end of the buffer
At(tx, i, g) == IF i + 1 <= Len(tx) THEN tx[i + 1] ELSE g

\* does the response-length computation read past the end of the buffer
ReadsPastEnd(tx, n) == tx[5] = 0 /\ n > 5 /\ Len(tx) < 7

\* the indices (from 0) of tx that _transmit_raw reads for a command of length
\* n that is acknowledged: header, ACK comparison, body, response-length fields
ReadIndices(tx, n, g) ==
    (0..4) \cup (IF n > 5 THEN 5..(n - 1) ELSE {}) \cup
    (IF tx[5] = 0 /\ n > 5 THEN
         {5, 6} \cup
         (IF n = 7 THEN {}
          ELSE LET body_len == (n - 4) % 65536
                   lc == Ntohs(At(tx, 5, g), At(tx, 6, g))
               IN  IF lc # body_len - 3 /\ lc # body_len - 5 THEN {}
                   ELSE IF n = 7 + lc THEN {}
                   ELSE {n - 2, n - 1})
     ELSE IF n = 5 THEN {4}
     ELSE LET body_len == n - 4
              lc == tx[5]
          IN  IF lc # body_len - 1 /\ lc # body_len - 2 THEN {4}
              ELSE IF n = 5 + lc THEN {4}
              ELSE {4, n - 1})

\* to_recv of _transmit_raw for command tx of length n
ToRecv(tx, n, g) ==
    IF tx[5] = 0 /\ n > 5 THEN
        IF n = 7 THEN
            LET le == Ntohs(At(tx, 5, g), At(tx, 6, g))
            IN  IF le = 0 THEN TO_RECV_MAX ELSE le + 2
        ELSE
            LET body_len == (n - 4) % 65536
                lc == Ntohs(At(tx, 5, g), At(tx, 6, g))
            IN  IF lc # body_len - 3 /\ lc # body_len - 5 THEN TO_RECV_MAX
                ELSE IF n = 7 + lc THEN 2
                ELSE LET le == Ntohs(At(tx, n - 2, g), At(tx, n - 1, g))
                     IN  IF le = 0 THEN TO_RECV_MAX ELSE le + 2
    ELSE IF n = 5 THEN
        IF tx[5] = 0 THEN TO_RECV_MAX ELSE tx[5] + 2
    ELSE
        LET body_len == n - 4
            lc == tx[5]
        IN  IF lc # body_len - 1 /\ lc # body_len - 2 THEN TO_RECV_MAX
            ELSE IF n = 5 + lc THEN 2
            ELSE IF At(tx, n - 1, g) = 0 THEN TO_RECV_MAX
            ELSE IF n = 5 + lc THEN 2
            ELSE IF At(tx, n - 1, g) = 0 THEN TO_RECV_MAX
            ELSE At(tx, n - 1, g) + 2

(***************************************************************************)
(* Return of _transmit_raw to the entry point that called it.              *)
(***************************************************************************)
\* the SELECT command logic_channel_open builds for channel c and AID aid
SelectCommand(c, aid) ==
    LET tx_buf == APDU_SELECT_HEADER \o aid
    IN  [tx_buf EXCEPT ![1] = Or8(AndF0(tx_buf[1]), c), ![5] = Len(aid)]

\* the check of the MANAGE CHANNEL response with the length test weakened to
\* "at least a status word"
ChannelOpenedAnyLength(resp) == Len(resp) >= 2 /\ AndF0(resp[2]) = \h90

\* the checks logic_channel_open makes on the MANAGE CHANNEL response
ChannelOpened(resp) == Len(resp) = 3 /\ AndF0(resp[2]) = \h90

\* the value logic_channel_open returns after a successful SELECT exchange
SelectResult(resp, c) ==
    IF Len(resp) < 2 THEN -1
    ELSE IF resp[Len(resp) - 1] \in {\h90, \h61} THEN c
    ELSE -1

\* _transmit_raw returns r (0 or -1) having logged e, with response resp and
\* *rx_len = len, after the hardware calls lg
ExchangeReturn(r, e, resp, len, lg) ==
    LET lg2 == Append(lg, Ev("ret", e, IF r = 0 THEN resp ELSE << >>))
        EndsWith(v) ==
            /\ pc' = "done"
            /\ ret' = <<v>>
            /\ rx_len' = len
            /\ UNCHANGED << stage, cmd, tx_len, channel, heap, rx_ptr >>
    IN  /\ log' = lg2
        /\ CASE op = "transmit" ->
                  /\ pc' = "done"
                  /\ ret' = <<r>>
                  /\ heap' = IF r = 0 THEN heap ELSE "freed"
                  /\ rx_len' = IF r = 0 THEN len ELSE <<0>>
                  /\ UNCHANGED << stage, cmd, tx_len, channel, rx_ptr >>
             [] op = "connect" -> EndsWith(r)
             [] op = "close" -> EndsWith(0)
             [] op = "open" /\ stage = "mc" ->
                  IF r # 0 \/ ~ChannelOpened(resp) THEN EndsWith(-1)
                  ELSE /\ pc' = "transmit_raw"
                       /\ stage' = "select"
                       /\ channel' = resp[1]
                       /\ cmd' = SelectCommand(resp[1], arg)
                       /\ tx_len' = U8(Len(APDU_SELECT_HEADER) + Len(arg))
                       /\ rx_len' = len
                       /\ UNCHANGED << ret, heap, rx_ptr >>
             [] op = "open" /\ stage = "select" ->
                  IF r # 0 THEN EndsWith(-1) ELSE EndsWith(SelectResult(resp, channel))

(***************************************************************************)
(* Entry points.                                                           *)
(***************************************************************************)
\* the caller takes the result; the next call starts from fresh locals
Return ==
    /\ pc = "done"
    /\ UNCHANGED hvars
    /\ pc' = "idle"
    /\ op' = "none" /\ stage' = "none" /\ arg' = << >> /\ cmd' = << >> /\ tx_len' = 0
    /\ log' = << >> /\ rx' = << >> /\ rx_len' = << >> /\ to_recv' = 0 /\ nulls' = 0
    /\ sw' = << >> /\ channel' = 0 /\ ret' = << >> /\ t0' = 0 /\ idx' = 0
    /\ heap' = "none" /\ rx_ptr' = "unset"
    /\ UNCHANGED << sim_on, reset_pin >>

\* apdu_interface_connect, up to the first GPIO write of _reset_card
Connect ==
    /\ pc = "idle"
    /\ UNCHANGED hvars
    /\ op' = "connect"
    /\ pc' = "reset_sim_low"
    /\ reset_pin' = 0
    /\ log' = Append(log, Ev("gpio", "RESET_PIN", <<0>>))
    /\ UNCHANGED << stage, arg, cmd, tx_len, rx, rx_len, to_recv, nulls, sw, channel,
                    ret, sim_on, t0, idx, heap, rx_ptr >>

\* a disconnect that drops the activation line only
DisconnectKeepsReset ==
    /\ pc = "idle"
    /\ UNCHANGED hvars
    /\ op' = "disconnect"
    /\ pc' = "done"
    /\ sim_on' = 0
    /\ log' = log \o << Ev("gpio", "SIM_ON_PIN", <<0>>) >>
    /\ ret' = <<0>>
    /\ UNCHANGED << stage, arg, cmd, tx_len, rx, rx_len, to_recv, nulls, sw, channel,
                    reset_pin, t0, idx, heap, rx_ptr >>

\* apdu_interface_disconnect
Disconnect ==
    /\ pc = "idle"
    /\ UNCHANGED hvars
    /\ op' = "disconnect"
    /\ pc' = "done"
    /\ reset_pin' = 0
    /\ sim_on' = 0
    /\ log' = log \o << Ev("gpio", "RESET_PIN", <<0>>), Ev("gpio", "SIM_ON_PIN", <<0>>) >>
    /\ ret' = <<0>>
    /\ UNCHANGED << stage, arg, cmd, tx_len, rx, rx_len, to_recv, nulls, sw, channel,
                    t0, idx, heap, rx_ptr >>

\* apdu_interface_logic_channel_open, up to the call of _transmit_raw
LogicChannelOpen ==
    /\ pc = "idle"
    /\ UNCHANGED hvars
    /\ \E aid \in Aids :
        /\ op' = "open"
        /\ stage' = "mc"
        /\ arg' = aid
        /\ channel' = 0
        /\ cmd' = APDU_OPENLOGICCHANNEL
        /\ tx_len' = U8(Len(APDU_OPENLOGICCHANNEL))
        /\ pc' = "transmit_raw"
    /\ UNCHANGED << log, rx, rx_len, to_recv, nulls, sw, ret, sim_on, reset_pin, t0,
                    idx, heap, rx_ptr >>

\* logic_channel_close without its test of the channel
ClosesAnyChannel(c) == TRUE

\* does logic_channel_close transmit for this channel
ClosesChannel(c) == c # 0

\* apdu_interface_logic_channel_close, up to the call of _transmit_raw
LogicChannelClose ==
    /\ pc = "idle"
    /\ UNCHANGED hvars
    /\ \E c \in CloseChannels :
        /\ op' = "close"
        /\ arg' = <<c>>
        /\ IF ClosesChannel(c)
           THEN /\ stage' = "close"
                /\ cmd' = APDU_CLOSELOGICCHANNEL
                /\ tx_len' = U8(Len(APDU_CLOSELOGICCHANNEL))
                /\ pc' = "transmit_raw"
                /\ ret' = ret
           ELSE /\ pc' = "done"
                /\ ret' = <<0>>
                /\ UNCHANGED << stage, cmd, tx_len >>
    /\ UNCHANGED << log, rx, rx_len, to_recv, nulls, sw, channel, sim_on, reset_pin,
                    t0, idx, heap, rx_ptr >>

\* apdu_interface_transmit, up to the call of _transmit_raw
Transmit ==
    /\ pc = "idle"
    /\ UNCHANGED hvars
    /\ \E c \in Commands, malloc_ok \in BOOLEAN :
        /\ op' = "transmit"
        /\ arg' = c
        /\ IF malloc_ok
           THEN /\ heap' = "allocated"
                /\ rx_ptr' = "buffer"
                /\ rx_len' = <<EUICC_INTERFACE_BUFSZ>>
                /\ stage' = "transmit"
                /\ cmd' = c
                /\ tx_len' = U8(Len(c))
                /\ pc' = "transmit_raw"
                /\ ret' = ret
           ELSE /\ rx_ptr' = "null"
                /\ pc' = "done"
                /\ ret' = <<-1>>
                /\ UNCHANGED << heap, rx_len, stage, cmd, tx_len >>
    /\ UNCHANGED << log, rx, to_recv, nulls, sw, channel, sim_on, reset_pin, t0, idx >>

(***************************************************************************)
(* _reset_card                                                             *)
(***************************************************************************)
ResetSimLow ==
    /\ pc = "reset_sim_low"
    /\ UNCHANGED hvars
    /\ sim_on' = 0
    /\ log' = log \o << Ev("gpio", "SIM_ON_PIN", <<0>>), Ev("delay", "ms", <<100>>) >>
    /\ pc' = "reset_sim_high"
    /\ UNCHANGED << op, stage, arg, cmd, tx_len, rx, rx_len, to_recv, nulls, sw, channel,
                    ret, reset_pin, t0, idx, heap, rx_ptr >>

ResetSimHigh ==
    /\ pc = "reset_sim_high"
    /\ UNCHANGED hvars
    /\ sim_on' = 1
    /\ log' = log \o << Ev("gpio", "SIM_ON_PIN", <<1>>), Ev("delay", "ms", <<10>>) >>
    /\ pc' = "reset_flush"
    /\ UNCHANGED << op, stage, arg, cmd, tx_len, rx, rx_len, to_recv, nulls, sw, channel,
                    ret, reset_pin, t0, idx, heap, rx_ptr >>

\* a power sequence that releases reset without flushing the serial input
ResetSkipsFlush ==
    /\ pc = "reset_flush"
    /\ UNCHANGED hvars
    /\ pc' = "reset_high"
    /\ UNCHANGED << log, op, stage, arg, cmd, tx_len, rx, rx_len, to_recv, nulls, sw,
                    channel, ret, sim_on, reset_pin, t0, idx, heap, rx_ptr >>

ResetFlush ==
    /\ pc = "reset_flush"
    /\ UNCHANGED hvars
    /\ log' = Append(log, Ev("flush", "uart", << >>))
    /\ pc' = "reset_high"
    /\ UNCHANGED << op, stage, arg, cmd, tx_len, rx, rx_len, to_recv, nulls, sw, channel,
                    ret, sim_on, reset_pin, t0, idx, heap, rx_ptr >>

ResetHigh ==
    /\ pc = "reset_high"
    /\ UNCHANGED hvars
    /\ reset_pin' = 1
    /\ log' = Append(log, Ev("gpio", "RESET_PIN", <<1>>))
    /\ pc' = "wait_start"
    /\ UNCHANGED << op, stage, arg, cmd, tx_len, rx, rx_len, to_recv, nulls, sw, channel,
                    ret, sim_on, t0, idx, heap, rx_ptr >>

(***************************************************************************)
(* _wait_for_card                                                          *)
(***************************************************************************)
\* t0 & (0x10 << i) : interface byte i is present
InterfacePresent(t, i) == Bit(t, 4 + i) = 1

\* the number of historical bytes taken from the high nibble of T0
HistoricalCountHigh(t) == t \div 16

\* t0 & 0xF : the number of historical bytes
HistoricalCount(t) == And0F(t)

\* the number of interface-byte positions the loop visits
InterfacePositions == 4

\* a connect that reports success although the listener failed
WaitFailedReturnsZero(lg, e) ==
    /\ log' = Append(lg, Ev("atr", e, << >>))
    /\ pc' = "done"
    /\ ret' = <<0>>
    /\ UNCHANGED << op, stage, arg, cmd, tx_len, rx, rx_len, to_recv, nulls, sw, channel,
                    sim_on, reset_pin, t0, idx, heap, rx_ptr >>

\* _wait_for_card returned -1 having logged e: connect returns -1
WaitFailed(lg, e) ==
    /\ log' = Append(lg, Ev("atr", e, << >>))
    /\ pc' = "done"
    /\ ret' = <<-1>>
    /\ UNCHANGED << op, stage, arg, cmd, tx_len, rx, rx_len, to_recv, nulls, sw, channel,
                    sim_on, reset_pin, t0, idx, heap, rx_ptr >>

\* the position after the interface-byte loop
AfterInterface(t) == IF HistoricalCount(t) = 0 THEN "wait_drain" ELSE "wait_historical"

WaitStart ==
    /\ pc = "wait_start"
    /\ UNCHANGED hvars
    /\ \E r \in {TIMEOUT} \cup {<<b>> : b \in AtrBytes} :
        LET lg == Append(log, Ev("r", "atr_start", r))
        IN  IF r = TIMEOUT THEN WaitFailed(lg, "Timeout wait for card ATR")
            ELSE IF r[1] # ATR_START THEN WaitFailed(lg, "Invalid response")
            ELSE /\ log' = lg
                 /\ pc' = "wait_t0"
                 /\ idx' = 0
                 /\ UNCHANGED << op, stage, arg, cmd, tx_len, rx, rx_len, to_recv, nulls,
                                 sw, channel, ret, sim_on, reset_pin, t0, heap, rx_ptr >>

WaitT0 ==
    /\ pc = "wait_t0"
    /\ UNCHANGED hvars
    /\ \E r \in {TIMEOUT} \cup {<<b>> : b \in T0s}
                \cup (IF idx < MaxMarkers THEN {<<ATR_START>>} ELSE {}) :
        LET lg == Append(log, Ev("r", "atr_t0", r))
        IN  IF r = TIMEOUT THEN WaitFailed(lg, "No response T0")
            ELSE /\ log' = lg
                 /\ IF r[1] = ATR_START
                    THEN /\ idx' = idx + 1
                         /\ UNCHANGED << pc, t0 >>
                    ELSE /\ t0' = r[1]
                         /\ idx' = 0
                         /\ pc' = "wait_interface"
                 /\ UNCHANGED << op, stage, arg, cmd, tx_len, rx, rx_len, to_recv, nulls,
                                 sw, channel, ret, sim_on, reset_pin, heap, rx_ptr >>

\* one iteration of the interface-byte loop
WaitInterface ==
    /\ pc = "wait_interface"
    /\ UNCHANGED hvars
    /\ idx < InterfacePositions
    /\ \E r \in IF InterfacePresent(t0, idx) THEN {TIMEOUT, <<\h11>>} ELSE {<< >>} :
        LET lg == IF InterfacePresent(t0, idx)
                  THEN Append(log, Ev("r", "atr_interface", r)) ELSE log
        IN  IF InterfacePresent(t0, idx) /\ r = TIMEOUT THEN WaitFailed(lg, "No response 1")
            ELSE /\ log' = lg
                 /\ IF idx + 1 < InterfacePositions
                    THEN idx' = idx + 1 /\ pc' = pc
                    ELSE idx' = 0 /\ pc' = AfterInterface(t0)
                 /\ UNCHANGED << op, stage, arg, cmd, tx_len, rx, rx_len, to_recv, nulls,
                                 sw, channel, ret, sim_on, reset_pin, t0, heap, rx_ptr >>

\* one iteration of the historical-byte loop
WaitHistorical ==
    /\ pc = "wait_historical"
    /\ UNCHANGED hvars
    /\ idx < HistoricalCount(t0)
    /\ \E r \in {TIMEOUT, <<\h22>>} :
        LET lg == Append(log, Ev("r", "atr_historical", r))
        IN  IF r = TIMEOUT THEN WaitFailed(lg, "No response 2")
            ELSE /\ log' = lg
                 /\ IF idx + 1 < HistoricalCount(t0)
                    THEN idx' = idx + 1 /\ pc' = pc
                    ELSE idx' = 0 /\ pc' = "wait_drain"
                 /\ UNCHANGED << op, stage, arg, cmd, tx_len, rx, rx_len, to_recv, nulls,
                                 sw, channel, ret, sim_on, reset_pin, t0, heap, rx_ptr >>

\* the settle delay, the drain of what is still buffered, and the return of 0 to
\* apdu_interface_connect, which calls _transmit_raw
WaitDrain ==
    /\ pc = "wait_drain"
    /\ UNCHANGED hvars
    /\ \E s \in 0..MaxExtra :
        log' = log \o << Ev("delay", "ms", <<500>>) >>
                   \o [i \in 1..s |-> Ev("r", "atr_extra", <<\h33>>)]
                   \o << Ev("atr", "ready", << >>) >>
    /\ stage' = "capabilities"
    /\ cmd' = APDU_TERMINAL_CAPABILITIES
    /\ tx_len' = U8(Len(APDU_TERMINAL_CAPABILITIES))
    /\ pc' = "transmit_raw"
    /\ UNCHANGED << op, arg, rx, rx_len, to_recv, nulls, sw, channel, ret, sim_on,
                    reset_pin, t0, idx, heap, rx_ptr >>

(***************************************************************************)
(* _transmit_raw                                                           *)
(***************************************************************************)
\* the length check: is a command of this tx_len rejected
TooShort(n) == n < 5

\* the entry of _transmit_raw: the length check, then the header with its echo
TransmitRawHeader ==
    /\ pc = "transmit_raw"
    /\ UNCHANGED hvars
    /\ UNCHANGED << op, arg, sim_on, reset_pin, t0, idx, rx, to_recv, sw >>
    /\ nulls' = 0
    /\ IF TooShort(tx_len)
       THEN ExchangeReturn(-1, "Invalid APDU command", << >>, rx_len, log)
       ELSE LET hdr == SubSeq(cmd, 1, 5)
            IN  \E w \in BOOLEAN, e \in Echoes(hdr) :
                  LET res == SendAndClearEcho(hdr, w, e)
                      lg == log \o EchoEvents("header", hdr, w, e)
                  IN  /\ (~w) => e = hdr
                      /\ IF res = "ok"
                         THEN /\ log' = lg
                              /\ pc' = "procedure_byte"
                              /\ UNCHANGED << stage, cmd, tx_len, channel, ret, rx_len,
                                              heap, rx_ptr >>
                         ELSE ExchangeReturn(-1, res, << >>, rx_len, lg)

\* one iteration of the procedure-byte loop
ProcedureByte ==
    /\ pc = "procedure_byte"
    /\ UNCHANGED hvars
    /\ UNCHANGED << op, arg, sim_on, reset_pin, t0, idx, rx, to_recv >>
    /\ \E r \in ProcReads(cmd[2]) :
        LET lg == Append(log, Ev("r", "ack", r))
        IN  IF r = TIMEOUT
            THEN /\ ExchangeReturn(-1, "No ack", << >>, rx_len, lg)
                 /\ UNCHANGED << nulls, sw >>
            ELSE /\ log' = lg
                 /\ UNCHANGED << stage, cmd, tx_len, channel, ret, rx_len, heap, rx_ptr >>
                 /\ IF r[1] = cmd[2]
                    THEN pc' = "body" /\ UNCHANGED << nulls, sw >>
                    ELSE IF r[1] # NULL_BYTE
                    THEN pc' = "sw2" /\ sw' = r /\ nulls' = nulls
                    ELSE pc' = pc /\ nulls' = nulls + 1 /\ sw' = sw

\* the read of SW2 after an early SW1
StatusWord2 ==
    /\ pc = "sw2"
    /\ UNCHANGED hvars
    /\ UNCHANGED << op, arg, sim_on, reset_pin, t0, idx, rx, to_recv, nulls >>
    /\ \E r \in {TIMEOUT} \cup {<<b>> : b \in Sw2Bytes} :
        LET lg == Append(log, Ev("r", "sw2", r))
        IN  IF r = TIMEOUT
            THEN ExchangeReturn(-1, "No sw2", << >>, rx_len, lg) /\ sw' = sw
            ELSE /\ log' = lg
                 /\ sw' = sw \o r
                 /\ pc' = "nil"
                 /\ UNCHANGED << stage, cmd, tx_len, channel, ret, rx_len, heap, rx_ptr >>

\* the status-word path without the test of the probe's result
StatusWordEndIgnoresExtra ==
    /\ pc = "nil"
    /\ UNCHANGED hvars
    /\ UNCHANGED << op, arg, sim_on, reset_pin, t0, idx, to_recv, nulls, sw >>
    /\ \E r \in {TIMEOUT, <<RespFill>>} :
        LET lg == Append(log, Ev("r", "nil", r))
        IN  ExchangeReturn(0, "ok", sw, <<2>>, lg) /\ rx' = sw

\* the probe for a byte after the status word
StatusWordEnd ==
    /\ pc = "nil"
    /\ UNCHANGED hvars
    /\ UNCHANGED << op, arg, sim_on, reset_pin, t0, idx, to_recv, nulls, sw >>
    /\ \E r \in {TIMEOUT, <<RespFill>>} :
        LET lg == Append(log, Ev("r", "nil", r))
        IN  IF r # TIMEOUT
            THEN ExchangeReturn(-1, "Expected nothing received", << >>, rx_len, lg)
                 /\ rx' = rx
            ELSE ExchangeReturn(0, "ok", sw, <<2>>, lg) /\ rx' = sw

\* after the ACK: the body with its echo, then the response-length computation
Body ==
    /\ pc = "body"
    /\ UNCHANGED hvars
    /\ UNCHANGED << op, arg, sim_on, reset_pin, t0, idx, sw >>
    /\ LET body == SubSeq(cmd, 6, tx_len)
       IN  \E w \in BOOLEAN, e \in Echoes(body),
              g \in IF ReadsPastEnd(cmd, tx_len) THEN Garbage ELSE {0} :
             LET sends == tx_len > 5
                 res == IF sends THEN SendAndClearEcho(body, w, e) ELSE "ok"
                 lg == IF sends THEN log \o EchoEvents("body", body, w, e) ELSE log
             IN  /\ (~w \/ ~sends) => e = body
                 /\ (~sends) => w
                 /\ IF res = "ok"
                    THEN /\ log' = lg
                         /\ to_recv' = ToRecv(cmd, tx_len, g)
                         /\ rx_len' = <<0>>
                         /\ rx' = << >>
                         /\ nulls' = 0
                         /\ pc' = "receive"
                         /\ UNCHANGED << stage, cmd, tx_len, channel, ret, heap, rx_ptr >>
                    ELSE /\ ExchangeReturn(-1, res, << >>, rx_len, lg)
                         /\ UNCHANGED << rx, to_recv, nulls >>

\* the end of the receive loop: the length check and the return
ReceiveEnd(resp, lg) ==
    IF Len(resp) # to_recv /\ to_recv # TO_RECV_MAX
    THEN ExchangeReturn(-1, "Response invalid", << >>, <<Len(resp)>>, lg)
    ELSE ExchangeReturn(0, "ok", resp, <<Len(resp)>>, lg)

\* a receive loop that discards nothing
DiscardsNothing(b) == FALSE

\* does the receive loop discard byte b
Discards(b) == to_recv = 2 /\ b = NULL_BYTE

\* uart_read_bytes stores at rx + n: is that past the end of the response buffer
StoresPastEnd(n) == n >= EUICC_INTERFACE_BUFSZ

\* one iteration of the receive loop; a store past the end of the buffer is
\* undefined: the run goes on with the byte stored in adjacent memory, or aborts
Receive ==
    /\ pc = "receive"
    /\ UNCHANGED hvars
    /\ rx_len[1] < to_recv
    /\ UNCHANGED << op, arg, sim_on, reset_pin, t0, idx, to_recv, sw >>
    /\ \E r \in RecvReads(rx_len[1]), crash \in BOOLEAN :
        LET lg == Append(log, Ev("r", IF rx_len[1] = 0 THEN "response_5000"
                                         ELSE "response_300", r))
        IN  IF r = TIMEOUT
            THEN ReceiveEnd(rx, lg) /\ UNCHANGED << rx, nulls >>
            ELSE IF Discards(r[1])
            THEN /\ log' = lg
                 /\ nulls' = nulls + 1
                 /\ UNCHANGED << pc, rx, rx_len, stage, cmd, tx_len, channel, ret, heap,
                                 rx_ptr >>
            ELSE IF StoresPastEnd(rx_len[1]) /\ crash
            THEN /\ log' = lg
                 /\ pc' = "crashed"
                 /\ UNCHANGED << rx, rx_len, nulls, stage, cmd, tx_len, channel, ret, heap,
                                 rx_ptr >>
            ELSE /\ rx' = Append(rx, r[1])
                 /\ nulls' = nulls
                 /\ IF rx_len[1] + 1 < to_recv
                    THEN /\ log' = lg
                         /\ rx_len' = <<rx_len[1] + 1>>
                         /\ UNCHANGED << pc, stage, cmd, tx_len, channel, ret, heap,
                                         rx_ptr >>
                    ELSE ReceiveEnd(Append(rx, r[1]), lg)

Next ==
    \/ Return
    \/ Connect
    \/ Disconnect
    \/ LogicChannelOpen
    \/ LogicChannelClose
    \/ Transmit
    \/ ResetSimLow
    \/ ResetSimHigh
    \/ ResetFlush
    \/ ResetHigh
    \/ WaitStart
    \/ WaitT0
    \/ WaitInterface
    \/ WaitHistorical
    \/ WaitDrain
    \/ TransmitRawHeader
    \/ ProcedureByte
    \/ StatusWord2
    \/ StatusWordEnd
    \/ Body
    \/ Receive

Spec == Init /\ [][Next]_vars

\* a step of _transmit_raw
ExchangeStep ==
    \/ TransmitRawHeader
    \/ ProcedureByte
    \/ StatusWord2
    \/ StatusWordEnd
    \/ Body
    \/ Receive

\* the driver is sequential code and every serial read returns a byte or times
\* out: a call of _transmit_raw that can take its next step takes it
FairSpec == Spec /\ WF_vars(ExchangeStep)

(***************************************************************************)
(* The HTTP driver (src/driver/http/espidf.c).                             *)
(***************************************************************************)
\* the data of one ON_DATA event
ChunkData == { << \h41 >>, << \h42, \h43 >> }

\* the certificate file
CertsPem == << \h2D >>

\* HTTP status codes
StatusCodes == {200}

\* malloc succeeds only while the heap has room
HeapHasRoom == Len(blocks) < MaxBlocks

\* a block just allocated holding d; frees counts the driver's free() calls on it
NewBlock(d) == [data |-> d, frees |-> 0, handed |-> FALSE]

\* free(b) by the driver, which never calls free(NULL); what a freed block
\* held is gone
Free(bl, b) ==
    IF b = 0 THEN bl ELSE [bl EXCEPT ![b].frees = @ + 1, ![b].data = << >>]

\* espidf_httpinterface_init: the certificate bundle is loaded when the
\* partition registers and the file opens; the result of malloc is not tested
HttpInterfaceInit ==
    /\ hpc = "unloaded"
    /\ \E loads \in BOOLEAN, malloc_ok \in BOOLEAN :
        IF ~loads
        THEN /\ malloc_ok
             /\ hpc' = "idle"
             /\ UNCHANGED << certs_buf, blocks >>
        ELSE IF malloc_ok /\ HeapHasRoom
        THEN /\ blocks' = Append(blocks, NewBlock(Append(CertsPem, 0)))
             /\ certs_buf' = Len(blocks) + 1
             /\ hpc' = "idle"
        ELSE /\ hpc' = "aborted"
             /\ UNCHANGED << certs_buf, blocks >>
    /\ UNCHANGED << output_buffer, output_len, receive_len, chunks, hrx, hrx_len, rcode,
                    hret >>
    /\ UNCHANGED vars

\* transmit, up to the call of esp_http_client_perform
HttpTransmit ==
    /\ hpc = "idle"
    /\ hpc' = "perform"
    /\ output_buffer' = 0
    /\ output_len' = 0
    /\ receive_len' = 0
    /\ chunks' = << >>
    /\ hrx' = << >> /\ hrx_len' = << >> /\ rcode' = << >> /\ hret' = << >>
    /\ UNCHANGED << certs_buf, blocks >>
    /\ UNCHANGED vars

\* _http_event_handler for one HTTP_EVENT_ON_DATA
OnData ==
    /\ hpc = "perform"
    /\ Len(chunks) < MaxChunks
    /\ \E d \in ChunkData, alloc_ok \in BOOLEAN :
        /\ chunks' = Append(chunks, d)
        /\ receive_len' = receive_len + Len(d)
        /\ IF output_buffer = 0
           THEN IF alloc_ok /\ HeapHasRoom
                THEN /\ blocks' = Append(blocks, NewBlock(d))
                     /\ output_buffer' = Len(blocks) + 1
                     /\ output_len' = Len(d)
                ELSE /\ output_buffer' = 0
                     /\ output_len' = 0
                     /\ blocks' = blocks
           ELSE IF alloc_ok
                THEN /\ blocks' = [blocks EXCEPT ![output_buffer].data =
                                       SubSeq(@, 1, output_len) \o d]
                     /\ output_len' = output_len + Len(d)
                     /\ output_buffer' = output_buffer
                ELSE /\ output_buffer' = 0
                     /\ UNCHANGED << output_len, blocks >>
    /\ UNCHANGED << hpc, certs_buf, hrx, hrx_len, rcode, hret >>
    /\ UNCHANGED vars

\* transmit after esp_http_client_perform returned err
PerformEnd ==
    /\ hpc = "perform"
    /\ \E err \in {"ESP_OK", "ESP_FAIL"}, code \in StatusCodes :
        IF output_len # receive_len
        THEN /\ blocks' = Free(blocks, output_buffer)
             /\ output_buffer' = 0
             /\ hrx' = << 0 >> /\ hrx_len' = << 0 >> /\ rcode' = << 0 >>
             /\ hret' = << -1 >>
        ELSE IF err = "ESP_OK"
        THEN /\ rcode' = << code >>
             /\ hret' = << 0 >>
             /\ output_buffer' = output_buffer
             /\ IF output_len > 0 /\ output_buffer # 0
                THEN /\ hrx_len' = << output_len + 1 >>
                     /\ hrx' = << output_buffer >>
                     /\ blocks' = [blocks EXCEPT
                                      ![output_buffer].data = SubSeq(@, 1, output_len) \o << 0 >>,
                                      ![output_buffer].handed = TRUE]
                ELSE /\ hrx_len' = << 0 >>
                     /\ hrx' = << 0 >>
                     /\ blocks' = blocks
        ELSE /\ rcode' = << code >>
             /\ hrx_len' = << 0 >>
             /\ hrx' = << 0 >>
             /\ blocks' = Free(blocks, output_buffer)
             /\ output_buffer' = 0
             /\ hret' = << -1 >>
    /\ output_len' = 0
    /\ receive_len' = 0
    /\ hpc' = "idle"
    /\ UNCHANGED << certs_buf, chunks >>
    /\ UNCHANGED vars

\* espidf_httpinterface_fini
HttpInterfaceFini ==
    /\ hpc = "idle"
    /\ blocks' = Free(Free(blocks, output_buffer), certs_buf)
    /\ output_buffer' = 0
    /\ certs_buf' = 0
    /\ hpc' = "unloaded"
    /\ UNCHANGED << output_len, receive_len, chunks, hrx, hrx_len, rcode, hret >>
    /\ UNCHANGED vars

HttpNext ==
    \/ HttpInterfaceInit
    \/ HttpTransmit
    \/ OnData
    \/ PerformEnd
    \/ HttpInterfaceFini

HttpSpec == Init /\ [][HttpNext]_<< vars, hvars >>

(***************************************************************************)
(* Properties.                                                             *)
(***************************************************************************)
\* the returns of _transmit_raw since the entry point was called
Rets == SelectSeq(log, LAMBDA e : e.k = "ret")

\* what the last echo read of phase ph returned
LastEcho(ph) == LET es == Events(log, "r", ph) IN es[Len(es)].b

\* the exchange is past the echo check of its header
PastHeaderEcho == pc \in {"procedure_byte", "sw2", "nil", "body", "receive"}

\* C1: an exchange proceeds past the echo check of the header, and past the echo
\* check of the body, only if the echo equals the bytes sent, byte for byte.
C1_EchoExact ==
    /\ PastHeaderEcho => LastEcho("header") = SubSeq(cmd, 1, 5)
    /\ (pc = "receive" /\ tx_len > 5) => LastEcho("body") = SubSeq(cmd, 6, tx_len)

\* the short-form case table, for a command of length n with P3 = p3 and last byte last
ShortExpected(n, p3, last) ==
    IF n = 5 THEN (IF p3 = 0 THEN 65535 ELSE p3 + 2)
    ELSE IF n = 5 + p3 THEN 2
    ELSE IF n = 6 + p3 THEN (IF last = 0 THEN 65535 ELSE last + 2)
    ELSE 65535

\* C2: for every acknowledged command of length L with P3 nonzero or L = 5, the
\* expected receive count follows the short-form case table.
C2_ShortFormTable ==
    (pc = "receive" /\ (cmd[5] # 0 \/ Len(cmd) = 5))
        => to_recv = ShortExpected(Len(cmd), cmd[5], cmd[Len(cmd)])

\* the extended-form case table, for a command c of length n > 5 with P3 = 0
ExtendedExpected(c, n) ==
    IF n < 7 THEN 65535
    ELSE IF n = 7 THEN
        (IF c[6] * 256 + c[7] = 0 THEN 65535 ELSE c[6] * 256 + c[7] + 2)
    ELSE IF n = 7 + c[6] * 256 + c[7] THEN 2
    ELSE IF n = 9 + c[6] * 256 + c[7] THEN
        (IF c[n - 1] * 256 + c[n] = 0 THEN 65535 ELSE c[n - 1] * 256 + c[n] + 2)
    ELSE 65535

\* C3: for every acknowledged command of length L > 5 with P3 = 0, the expected
\* receive count follows the extended-form case table.
C3_ExtendedFormTable ==
    (pc = "receive" /\ cmd[5] = 0 /\ Len(cmd) > 5)
        => to_recv = ExtendedExpected(cmd, Len(cmd))

\* C4: a command is rejected by the length check, before any byte is written,
\* exactly when its length is below 5; every command of length >= 5 has its
\* header handed to the serial line.
C4_LengthCheck ==
    (pc = "done" /\ stage # "none") =>
        /\ (Rets[Len(Rets)].ph = "Invalid APDU command") <=> (Len(cmd) < 5)
        /\ (Rets[Len(Rets)].ph = "Invalid APDU command") => Wire(log) = << >>
        /\ Len(cmd) >= 5 => Events(log, "w", "header") # << >>

\* the MANAGE CHANNEL exchange succeeded with a 3-byte response whose SW1 has high
\* nibble 9
ManageChannelOk(e) == e.ph = "ok" /\ Len(e.b) = 3 /\ e.b[2] \div 16 = 9

\* the SELECT exchange succeeded with a status word of normal completion
SelectOk(e) == e.ph = "ok" /\ Len(e.b) >= 2 /\ e.b[Len(e.b) - 1] \in {\h90, \h61}

\* C5: open first exchanges exactly 00 70 00 00 01; if that exchange fails, or its
\* response is not 3 bytes, or SW1's high nibble is not 9, open returns -1 and
\* transmits no SELECT; otherwise the first response byte is the channel id, and
\* it is what open returns when the SELECT succeeds.
C5_ManageChannelStep ==
    op = "open" =>
        /\ Wire(log) # << >> => SubSeq(Wire(log), 1, 5) = << 0, 112, 0, 0, 1 >>
        /\ Rets = << >> => (stage = "mc" /\ Len(Wire(log)) <= 5)
        /\ Rets # << >> =>
            IF ManageChannelOk(Rets[1])
            THEN /\ stage = "select"
                 /\ channel = Rets[1].b[1]
                 /\ cmd[2] = \hA4
                 /\ (Len(Rets) = 2 /\ SelectOk(Rets[2])) => ret = << Rets[1].b[1] >>
            ELSE /\ pc = "done"
                 /\ ret = << -1 >>
                 /\ Len(Rets) = 1
                 /\ Len(Wire(log)) <= 5

\* open returned channel 1 after the card answered MANAGE CHANNEL with 01 90 00
C5_Witness ==
    /\ op = "open" /\ pc = "done" /\ ret = << 1 >>
    /\ Rets[1].b = << 1, \h90, 0 >>
    /\ Len(Rets) = 2

\* C6: logic_channel_open returns -1 or a channel id in 0..3.
C6_OpenResultRange ==
    (op = "open" /\ pc = "done") => ret[1] \in {-1} \cup (0..3)

\* C7: the SELECT command is the template 00 A4 04 00 FF with only the low nibble
\* of the first byte replaced by the channel id and the fifth byte by len(aid),
\* followed by the AID; once acknowledged, these are the bytes on the line.
C7_SelectPatch ==
    (op = "open" /\ stage = "select") =>
        /\ AndF0(cmd[1]) = AndF0(APDU_SELECT_HEADER[1])
        /\ And0F(cmd[1]) = And0F(channel)
        /\ SubSeq(cmd, 2, 4) = SubSeq(APDU_SELECT_HEADER, 2, 4)
        /\ cmd[5] = Len(arg)
        /\ SubSeq(cmd, 6, Len(cmd)) = arg
        /\ pc = "receive" => SubSeq(Wire(log), 6, Len(Wire(log))) = cmd

\* C8: logic_channel_close(n), n in 1..3, transmits n 70 80 FF 00 and returns
\* normally whatever the outcome of the exchange.
C8_ClosePatched ==
    (op = "close" /\ arg[1] \in 1..3) =>
        /\ Wire(log) # << >> =>
              SubSeq(Wire(log), 1, 5) = << arg[1], \h70, \h80, \hFF, \h00 >>
        /\ pc = "done" => ret = << 0 >>

\* C9: logic_channel_close(0) writes no byte, reads no byte and changes neither
\* control line, in every state it is called in.
C9_CloseBasicNoOp ==
    [][(op' = "close" /\ arg' = << 0 >>)
          => (log' = << >> /\ sim_on' = sim_on /\ reset_pin' = reset_pin
              /\ pc' = "done")]_vars

\* logic_channel_close(0) has returned, called with both control lines high
C9_Witness ==
    op = "close" /\ arg = << 0 >> /\ pc = "done" /\ sim_on = 1 /\ reset_pin = 1

\* number of bits set in a nibble
PopCount4(n) == (n % 2) + ((n \div 2) % 2) + ((n \div 4) % 2) + ((n \div 8) % 2)

\* the reads of the ATR listener
AtrReads == SelectSeq(log, LAMBDA e : e.k = "r" /\ e.ph \in
                {"atr_start", "atr_t0", "atr_interface", "atr_historical"})

\* the listener declared the card ready
AtrReady == Events(log, "atr", "ready") # << >>

\* the phases the listener's reads must have for T0 byte t after m repeated markers
AtrPhases(t, m) ==
    << "atr_start" >> \o [i \in 1..(m + 1) |-> "atr_t0"]
        \o [i \in 1..PopCount4(t \div 16) |-> "atr_interface"]
        \o [i \in 1..(t % 16) |-> "atr_historical"]

\* C10: the listener fails if the first byte is not 0x3B; it drains repeated 0x3B
\* bytes, takes the first other byte as T0, and declares readiness only after
\* reading exactly popcount(T0 >> 4) interface bytes followed by exactly
\* (T0 & 0x0F) historical bytes; a timeout on T0 or a mandatory byte makes it
\* fail; it makes one attempt only.
C10_AtrDraining ==
    op = "connect" =>
        LET starts == Events(log, "r", "atr_start")
            t0s == Events(log, "r", "atr_t0")
        IN  /\ Len(starts) <= 1
            /\ (starts # << >> /\ starts[1].b # << ATR_START >>)
                  => (pc = "done" /\ ret = << -1 >> /\ ~AtrReady /\ Len(AtrReads) = 1)
            /\ (\E i \in 1..Len(AtrReads) : AtrReads[i].b = TIMEOUT)
                  => (pc = "done" /\ ret = << -1 >> /\ ~AtrReady
                      /\ AtrReads[Len(AtrReads)].b = TIMEOUT)
            /\ AtrReady =>
                  /\ \A i \in 1..(Len(t0s) - 1) : t0s[i].b = << ATR_START >>
                  /\ t0s[Len(t0s)].b = << t0 >>
                  /\ t0 # ATR_START
                  /\ [i \in 1..Len(AtrReads) |-> AtrReads[i].ph]
                        = AtrPhases(t0, Len(t0s) - 1)

\* the card is ready after T0 = 0x97: 2 interface bytes and 7 historical bytes
C10_Witness ==
    /\ op = "connect" /\ AtrReady /\ t0 = \h97
    /\ Len(Events(log, "r", "atr_interface")) = 2
    /\ Len(Events(log, "r", "atr_historical")) = 7

\* the positions of the returns of _transmit_raw in the log
RetIdx == {i \in 1..Len(log) : log[i].k = "ret"}

\* the hardware calls of the exchange that is running, or of the one that has
\* just returned
ExchangeLog ==
    LET ends == IF log # << >> /\ log[Len(log)].k = "ret"
                THEN RetIdx \ {Len(log)} ELSE RetIdx
        from == IF ends = {} THEN 1
                ELSE (CHOOSE x \in ends : \A y \in ends : y <= x) + 1
    IN  SubSeq(log, from, Len(log))

\* the reads of the receive loop that returned a byte
ResponseReads(l) ==
    SelectSeq(l, LAMBDA e : e.k = "r" /\ e.ph \in {"response_5000", "response_300"}
                            /\ e.b # TIMEOUT)

\* the bytes of these reads that are not a 0x60 received while 2 bytes are expected
KeptBytes(l) ==
    LET kept == SelectSeq(ResponseReads(l),
                          LAMBDA e : ~(to_recv = 2 /\ e.b = << NULL_BYTE >>))
    IN  [i \in 1..Len(kept) |-> kept[i].b[1]]

\* the exchange went through the receive loop
InReceivePath ==
    \/ pc = "receive"
    \/ /\ pc = "done" /\ stage # "none"
       /\ Events(ExchangeLog, "w", "header") # << >>
       /\ \E i \in 1..Len(ExchangeLog) :
             ExchangeLog[i].k = "r" /\ ExchangeLog[i].ph = "ack"
                /\ ExchangeLog[i].b = << cmd[2] >>
       /\ Rets[Len(Rets)].ph \in {"ok", "Response invalid"}

\* C11: a procedure byte 0x60 that is not the command's INS is discarded and
\* followed by a fresh one-byte read; in the receive loop, when exactly 2 bytes
\* are expected, a 0x60 is discarded without advancing the count; a discarded
\* 0x60 is neither in the response nor counted in its length.
C11_NullByteDiscarded ==
    /\ \A i \in 1..Len(log) :
          (log[i].k = "r" /\ log[i].ph = "ack" /\ log[i].b = << NULL_BYTE >>
              /\ cmd # << >> /\ cmd[2] # NULL_BYTE)
            => IF i = Len(log) THEN pc = "procedure_byte"
               ELSE log[i + 1].k = "r" /\ log[i + 1].ph = "ack"
    /\ InReceivePath =>
          /\ rx = KeptBytes(ExchangeLog)
          /\ Len(ResponseReads(ExchangeLog)) = Len(rx) + nulls
          /\ to_recv = 2 => \A i \in 1..Len(rx) : rx[i] # NULL_BYTE
          /\ pc = "receive" => rx_len = << Len(rx) >>
          /\ (pc = "done" /\ Rets[Len(Rets)].ph = "ok")
                => (Rets[Len(Rets)].b = rx /\ (op = "transmit" => rx_len = << Len(rx) >>))
    /\ (pc = "done" /\ stage # "none" /\ Events(ExchangeLog, "r", "nil") # << >>
          /\ Rets[Len(Rets)].ph = "ok")
          => (Len(Rets[Len(Rets)].b) = 2 /\ Rets[Len(Rets)].b[1] # NULL_BYTE)

\* an exchange expecting 2 bytes returned them after discarding a 0x60 in the
\* procedure-byte phase and another in the receive loop
C11_Witness ==
    /\ pc = "done" /\ op = "transmit" /\ ret = << 0 >> /\ to_recv = 2 /\ nulls = 1
    /\ Len(rx) = 2
    /\ Events(ExchangeLog, "r", "ack")[1].b = << NULL_BYTE >>

\* C12: in whatever state it is called, disconnect completes, performs no serial
\* I/O and leaves the activation line and the reset line low; so does a second
\* call.
C12_DisconnectIdempotent ==
    (op = "disconnect") =>
        /\ pc = "done"
        /\ ret = << 0 >>
        /\ sim_on = 0 /\ reset_pin = 0
        /\ Wire(log) = << >>
        /\ Reads(log) = 0
        /\ \A i \in 1..Len(log) : log[i].k = "gpio" /\ log[i].b = << 0 >>

\* disconnect has returned
C12_Witness ==
    op = "disconnect" /\ pc = "done" /\ sim_on = 0 /\ reset_pin = 0

\* the hardware calls of one power sequence
PowerSequence ==
    << Ev("gpio", "RESET_PIN", <<0>>), Ev("gpio", "SIM_ON_PIN", <<0>>),
       Ev("delay", "ms", <<100>>), Ev("gpio", "SIM_ON_PIN", <<1>>),
       Ev("delay", "ms", <<10>>), Ev("flush", "uart", << >>),
       Ev("gpio", "RESET_PIN", <<1>>) >>

\* is sequence s a prefix of sequence t
IsPrefix(s, t) == Len(s) <= Len(t) /\ SubSeq(t, 1, Len(s)) = s

\* the verdicts of the ATR listener
AtrVerdicts == SelectSeq(log, LAMBDA e : e.k = "atr")

\* C13: each connect runs the power sequence once, then the ATR listener once;
\* TERMINAL CAPABILITIES goes on the wire only after the listener reported
\* success, and connect then returns the outcome of that exchange; if the
\* listener fails connect returns -1 having written no byte.
C13_ConnectOrdering ==
    op = "connect" =>
        /\ IF Len(log) <= Len(PowerSequence)
           THEN IsPrefix(log, PowerSequence)
           ELSE IsPrefix(PowerSequence, log)
        /\ \A i \in (Len(PowerSequence) + 1)..Len(log) :
               log[i].k \notin {"gpio", "flush"}
        /\ \A i \in 1..Len(log) :
               (log[i].k = "r" /\ log[i].ph = "atr_start") => i = Len(PowerSequence) + 1
        /\ Len(AtrVerdicts) <= 1
        /\ \A i \in 1..Len(log) :
               log[i].k \in {"w", "ret"} =>
                   \E j \in 1..(i - 1) : log[j] = Ev("atr", "ready", << >>)
        /\ IsPrefix(Wire(log), APDU_TERMINAL_CAPABILITIES)
        /\ (pc \notin {"reset_sim_low", "reset_sim_high", "reset_flush", "reset_high",
                       "wait_start", "wait_t0", "wait_interface", "wait_historical",
                       "wait_drain", "done"})
              => (AtrReady /\ cmd = APDU_TERMINAL_CAPABILITIES /\ Rets = << >>)
        /\ pc = "done" =>
              /\ Len(AtrVerdicts) = 1
              /\ Len(Events(log, "r", "atr_start")) = 1
              /\ IF AtrReady
                 THEN /\ Len(Rets) = 1
                      /\ log[Len(log)].k = "ret"
                      /\ ret = << IF Rets[1].ph = "ok" THEN 0 ELSE -1 >>
                 ELSE /\ ret = << -1 >>
                      /\ Wire(log) = << >>
                      /\ Rets = << >>

\* a connect whose listener failed has returned
C13_ListenerFailed ==
    /\ op = "connect" /\ pc = "done" /\ ~AtrReady /\ ret = << -1 >>
    /\ Len(AtrReads) > 1

\* a connect whose exchange succeeded has returned
C13_Witness ==
    /\ op = "connect" /\ pc = "done" /\ AtrReady /\ ret = << 0 >>
    /\ Wire(log) = APDU_TERMINAL_CAPABILITIES

\* the current exchange has returned
Returned == log # << >> /\ log[Len(log)].k = "ret"

\* C14: a procedure byte that is neither INS nor 0x60 is SW1: exactly one more
\* byte is read as SW2, then one probe; a probe timeout gives success with the
\* response [SW1, SW2]; a further byte, or an SW2 timeout, gives failure; the
\* body is not written.  Body bytes are written only after an ACK was read.
C14_EarlyStatusWord ==
    LET L == ExchangeLog
        hdrs == Events(L, "w", "header")
        acks == Events(L, "r", "ack")
        sw2s == Events(L, "r", "sw2")
        nils == Events(L, "r", "nil")
    IN  /\ (acks # << >> \/ sw2s # << >> \/ nils # << >> \/ Events(L, "w", "body") # << >>)
              => (Len(hdrs) = 1 /\ Len(hdrs[1].b) = 5)
        /\ (Len(hdrs) = 1 /\ Len(hdrs[1].b) = 5) =>
            LET ins == hdrs[1].b[2]
                IsSw1(e) == e.b # TIMEOUT /\ e.b[1] \notin {ins, NULL_BYTE}
                early == acks # << >> /\ IsSw1(acks[Len(acks)])
            IN  /\ (~Returned) => hdrs[1].b = SubSeq(cmd, 1, 5)
                /\ \A i \in 1..(Len(acks) - 1) : ~IsSw1(acks[i])
                /\ (sw2s # << >> \/ nils # << >> \/ pc \in {"sw2", "nil"}) => early
                /\ \A i \in 1..Len(L) :
                       (L[i].k = "w" /\ L[i].ph = "body") =>
                           \E j \in 1..(i - 1) : L[j] = Ev("r", "ack", << ins >>)
                /\ early =>
                      /\ Events(L, "w", "body") = << >>
                      /\ Wire(L) = hdrs[1].b
                      /\ \A i \in 1..Len(L) :
                             L[i].k = "r" =>
                                 L[i].ph \notin {"body", "response_5000", "response_300"}
                      /\ Len(nils) <= 1
                      /\ Len(sw2s) = (IF pc = "sw2" THEN 0 ELSE 1)
                      /\ pc \in {"sw2", "nil"} \/ Returned
                      /\ pc = "nil" => (nils = << >> /\ sw2s[1].b # TIMEOUT)
                      /\ Returned =>
                            LET r == L[Len(L)]
                            IN  IF sw2s[1].b = TIMEOUT
                                THEN nils = << >> /\ r.ph # "ok"
                                ELSE /\ Len(nils) = 1
                                     /\ IF nils[1].b = TIMEOUT
                                        THEN /\ r.ph = "ok"
                                             /\ r.b = acks[Len(acks)].b \o sw2s[1].b
                                             /\ (op \in {"transmit", "connect"}) =>
                                                   (pc = "done" /\ ret = << 0 >>
                                                    /\ rx_len = << 2 >> /\ rx = r.b)
                                        ELSE /\ r.ph # "ok"
                                             /\ (op \in {"transmit", "connect"}) =>
                                                   (pc = "done" /\ ret = << -1 >>)

\* a command with a body was answered by an early status word: success, and
\* only the header is on the line
C14_Witness ==
    /\ op = "transmit" /\ pc = "done" /\ ret = << 0 >>
    /\ Len(cmd) > 5 /\ tx_len > 5
    /\ Events(ExchangeLog, "r", "nil") # << >>
    /\ Wire(ExchangeLog) = SubSeq(cmd, 1, 5)
    /\ rx = << \h6A, \h00 >>

\* the exact number of response bytes the length fields of command c determine,
\* -1 when they determine none (Le = 0, or inconsistent lengths)
ExactCount(c) ==
    LET n == Len(c)
        Le2(i) == c[i] * 256 + c[i + 1]
    IN  IF c[5] # 0 \/ n = 5 THEN
            IF n = 5 THEN (IF c[5] = 0 THEN -1 ELSE c[5] + 2)
            ELSE IF n = 5 + c[5] THEN 2
            ELSE IF n = 6 + c[5] THEN (IF c[n] = 0 THEN -1 ELSE c[n] + 2)
            ELSE -1
        ELSE IF n < 7 THEN -1
        ELSE IF n = 7 THEN (IF Le2(6) = 0 THEN -1 ELSE Le2(6) + 2)
        ELSE IF n = 7 + Le2(6) THEN 2
        ELSE IF n = 9 + Le2(6) THEN (IF Le2(n - 1) = 0 THEN -1 ELSE Le2(n - 1) + 2)
        ELSE -1

\* C15: an acknowledged command whose length fields determine an exact count
\* (Le + 2 for a nonzero short or extended Le, 2 with no Le) succeeds through the
\* receive loop only with exactly that many bytes received; a timeout before the
\* count is reached makes the exchange fail.
C15_ExactLength ==
    (pc = "done" /\ cmd # << >> /\ InReceivePath /\ ExactCount(cmd) # -1) =>
        LET r == Rets[Len(Rets)]
        IN  /\ r.ph = "ok" => Len(r.b) = ExactCount(cmd)
            /\ (ResponseReads(ExchangeLog) # << >> \/ r.ph = "ok")
                  => (r.ph = "ok" <=> Len(KeptBytes(ExchangeLog)) = ExactCount(cmd))

\* C16: in every exchange and for every card behaviour, the number of bytes
\* stored into the response buffer never exceeds its capacity of 264 bytes, and
\* the reported response length never exceeds 264.
C16_ResponseBufferBound ==
    /\ Len(rx) <= EUICC_INTERFACE_BUFSZ
    /\ rx_len # << >> => rx_len[1] <= EUICC_INTERFACE_BUFSZ
    /\ pc # "crashed"

\* C17: for every acknowledged command of length L >= 5 the bytes written to
\* the line are exactly the command's L bytes in order, the 5 header bytes
\* before the ACK and the remaining L - 5 after it, and the expected response
\* length is computed from that same L; for L above 255 as well as below.
C17_WholeCommand ==
    pc = "receive" =>
        LET L == ExchangeLog
            hdrs == Events(L, "w", "header")
            bodies == Events(L, "w", "body")
        IN  /\ Len(cmd) >= 5
            /\ Wire(L) = cmd
            /\ Len(hdrs) = 1 /\ hdrs[1].b = SubSeq(cmd, 1, 5)
            /\ Len(bodies) = (IF Len(cmd) > 5 THEN 1 ELSE 0)
            /\ bodies # << >> => bodies[1].b = SubSeq(cmd, 6, Len(cmd))
            /\ \E i \in 1..Len(L) :
                   /\ L[i] = Ev("r", "ack", << cmd[2] >>)
                   /\ \A j \in 1..Len(L) :
                          L[j].k = "w" => (L[j].ph = "header" <=> j < i)
            /\ \E g \in Garbage \cup {0} : to_recv = ToRecv(cmd, Len(cmd), g)

\* the power sequence with the activation line driven low first
ActivationFirstSequence ==
    << Ev("gpio", "SIM_ON_PIN", <<0>>), Ev("gpio", "RESET_PIN", <<0>>),
       Ev("delay", "ms", <<100>>), Ev("gpio", "SIM_ON_PIN", <<1>>),
       Ev("delay", "ms", <<10>>), Ev("flush", "uart", << >>),
       Ev("gpio", "RESET_PIN", <<1>>) >>

\* the hardware calls of connect follow sequence q, the lines have the levels
\* last driven, reset is never high while activation is low, and reset is
\* released only after the flush
PowerOrder(q) ==
    /\ ~(reset_pin = 1 /\ sim_on = 0)
    /\ op = "connect" =>
          /\ IF Len(log) <= Len(q) THEN IsPrefix(log, q) ELSE IsPrefix(q, log)
          /\ \A i \in (Len(q) + 1)..Len(log) : log[i].k \notin {"gpio", "flush", "delay"}
                                                  \/ log[i] = Ev("delay", "ms", <<500>>)
          /\ \A i \in 1..Len(log) :
                 log[i] = Ev("gpio", "RESET_PIN", <<1>>) =>
                     \E j \in 1..(i - 1) : log[j].k = "flush"
          /\ \A i \in 1..Len(log) :
                 (log[i].k = "gpio" /\ \A j \in (i + 1)..Len(log) :
                                          ~(log[j].k = "gpio" /\ log[j].ph = log[i].ph))
                     => log[i].b = << IF log[i].ph = "RESET_PIN" THEN reset_pin ELSE sim_on >>

\* C18 as claimed: activation low, then reset low, then the long delay,
\* activation high, the short delay, the flush, reset high.
C18_ActivationLowFirst == PowerOrder(ActivationFirstSequence)

\* C18: the power sequence drives the reset line low, then the activation line
\* low, waits the long settle delay, raises the activation line, waits the short
\* delay, flushes the serial input, then raises the reset line; the reset line
\* is never high while the activation line is low, and the flush comes before
\* the release of reset.
C18_PowerSequenceOrder == PowerOrder(PowerSequence)

\* a power sequence has completed
C18_Witness ==
    op = "connect" /\ pc = "wait_start" /\ log = PowerSequence
        /\ reset_pin = 1 /\ sim_on = 1

\* C19: each transmit allocates one response buffer; if allocation fails it
\* returns -1 without touching the serial line; if the exchange fails it
\* releases the buffer, reports length 0 and -1, and the caller's response
\* pointer does not refer to the released buffer; if the exchange succeeds the
\* buffer is not released and is handed over with the response length.
C19_BufferLifecycle ==
    /\ (op = "transmit" /\ pc # "done") => (heap = "allocated" /\ rx_ptr = "buffer")
    /\ (op = "transmit" /\ pc = "done") =>
          /\ rx_ptr = "null" =>
                (ret = << -1 >> /\ heap = "none" /\ log = << >>)
          /\ (rx_ptr # "null" /\ ret = << -1 >>) =>
                (heap = "freed" /\ rx_len = << 0 >> /\ rx_ptr # "buffer")
          /\ ret = << 0 >> =>
                (heap = "allocated" /\ rx_ptr = "buffer" /\ rx_len = << Len(rx) >>)

\* C20: for every acknowledged command of length L >= 5 and every value of its
\* bytes, every command byte index the exchange reads lies in 0..L-1, also for
\* a 6-byte command whose P3 is 0.
C20_InBoundsReads ==
    pc = "receive" =>
        \A g \in Garbage \cup {0} :
            \A i \in ReadIndices(cmd, tx_len, g) : i \in 0..(Len(cmd) - 1)

\* the positions inside _transmit_raw
ExchangePcs == {"transmit_raw", "procedure_byte", "sw2", "nil", "body", "receive"}

\* the header and the body are written at most once in the current exchange
WrittenOnce ==
    /\ Len(Events(ExchangeLog, "w", "header")) <= 1
    /\ Len(Events(ExchangeLog, "w", "body")) <= 1

RECURSIVE Flatten(_)
Flatten(cs) == IF cs = << >> THEN << >> ELSE Head(cs) \o Flatten(Tail(cs))

\* C22: the HTTP transmit returns 0 with a non-empty body only when every chunk
\* delivered by ON_DATA was appended in arrival order; a body buffer handed to
\* the caller is never released or reused by the driver afterwards, neither by
\* a following transmit nor by fini; a buffer the driver owns is freed at most
\* once.
C22_ResponseOwnership ==
    /\ (hret = << 0 >> /\ hrx # << 0 >>) =>
          /\ blocks[hrx[1]].data = Flatten(chunks) \o << 0 >>
          /\ hrx_len = << Len(Flatten(chunks)) + 1 >>
          /\ chunks # << >>
    /\ \A b \in 1..Len(blocks) :
          /\ blocks[b].handed => blocks[b].frees = 0
          /\ blocks[b].frees <= 1
    /\ (hpc = "perform" /\ output_buffer # 0) => ~blocks[output_buffer].handed

====
